---- MODULE Spec2Model ----
(***************************************************************************)
(* Model of realtime/buffer/src/tcprequest.c: one blocking request /       *)
(* response exchange with the buffer server over a connected socket.       *)
(*                                                                         *)
(* Every caller owns one connection and issues its calls one at a time on  *)
(* it; calls of different callers interleave at the transport calls.       *)
(* malloc is taken to succeed (the code never tests its result).           *)
(***************************************************************************)
EXTENDS Integers, Sequences, FiniteSets, TLC

(* ------------------------------ bounds -------------------------------- *)

\* calls of tcprequest issued in one run, over all callers
MaxCalls == 2
\* longest payload whose bytes are followed one by one
MaxBuf == 1
\* payload bytes range over 0..MaxByte
MaxByte == 1

(* ------------------------- program constants -------------------------- *)

\* the protocol version the client is built with (VERSION, buffer.h)
VERSION == 1
\* sizeof(messagedef_t): UINT16 version, UINT16 command, UINT32 bufsize
SizeofDef == 8
\* half of a 32-bit word: an unsigned 32-bit value is kept as <<high, low>>
Half == 65536

NULL == "NULL"

\* two callers, each with its own connection and its own output slot
Callers == {1, 2}
Byte == 0..MaxByte

(* ------------------- unsigned 32-bit header field --------------------- *)

\* the UINT32_T holding k, for 0 <= k < 2^31
U32(k) == <<k \div Half, k % Half>>

\* 0xFFFFFFFF, the largest bufsize the header field can carry
U32Max == <<Half - 1, Half - 1>>

\* the conversion of the signed int n to unsigned int that C applies to n
\* before comparing it with the UINT32_T bufsize (n mod 2^32)
ToU32(n) ==
    IF n >= 0 THEN U32(n)
    ELSE <<(Half - 1) - ((-n - 1) \div Half), (Half - 1) - ((-n - 1) % Half)>>

\* n != request->def->bufsize, n != response->def->bufsize (lines 33, 52)
NeqBufsize(n, bufsize) == ToU32(n) # bufsize

\* n != sizeof(messagedef_t) (lines 27, 39): n is converted to size_t, so a
\* negative n becomes a huge value and never equals the size
NeqSizeofDef(n) == ~(n >= 0 /\ n = SizeofDef)

\* response->def->bufsize > 0 (line 50), an unsigned comparison
BufsizePositive(bufsize) == bufsize # U32(0)

\* the bufsize values followed in the model: the small ones and 0xFFFFFFFF
Bufsizes == {U32(k) : k \in 0..MaxBuf} \cup {U32Max}

(* ------------------------------ objects ------------------------------- *)

\* the objects of one call: the caller's request (message_t, messagedef_t,
\* payload) and the response tcprequest builds (the same three)
MsgObj == {"request", "response"}
DefObj == {"request_def", "response_def"}
BufObj == {"request_buf", "response_buf"}
Obj == MsgObj \cup DefObj \cup BufObj

\* the contents of a messagedef_t nothing has been stored in yet, or that a
\* short read filled only in part (the code never reads such a struct)
Indeterminate == [version |-> -1, command |-> -1, bufsize |-> <<-1, -1>>]

NoBuf == [size |-> U32(0), data |-> <<>>]
NoMsg == [def |-> NULL, buf |-> NULL]

\* the payload bytes of a request: byte i is i mod 256 cut to the byte range;
\* of the 0xFFFFFFFF-byte payload only the leading MaxBuf bytes are followed
ReqData(bufsize) ==
    LET len == IF bufsize[1] = 0 THEN bufsize[2] ELSE MaxBuf
    IN  [i \in 1..len |-> i % (MaxByte + 1)]

\* the request headers a caller passes in: any bufsize, the payload-length
\* invariant holding (request->buf is NULL when there is no payload)
RequestDefs == {[version |-> VERSION, command |-> 1, bufsize |-> b] : b \in Bufsizes}

\* the response headers the server may send: the supported version or
\* another one, any bufsize
ResponseDefs ==
    {[version |-> v, command |-> 2, bufsize |-> b] : v \in {VERSION, VERSION + 1}, b \in Bufsizes}

(* ----------------------------- transport ------------------------------ *)

\* what bufwrite / bufread may return for the fixed-size header: an error,
\* nothing, half of it, all of it
HeaderReturns == {-1, 0, SizeofDef \div 2, SizeofDef}

\* what bufwrite / bufread may return for a payload of count bytes: an error
\* or the number of bytes moved, at most count (counts above MaxBuf are not
\* followed, so the 0xFFFFFFFF-byte payload is never moved whole)
PayloadReturns(count) ==
    {-1} \cup {k \in 0..MaxBuf : count[1] > 0 \/ k <= count[2]}

\* the number of bytes a transport call that returned n has moved
Moved(n) == IF n > 0 THEN n ELSE 0

(* ------------------------------- state -------------------------------- *)

VARIABLES
    pc,            \* pc[t]: where caller t stands in tcprequest
    ncalls,        \* calls of tcprequest started so far
    heap,          \* heap[t][o]: "unallocated", "live" or "freed"
    msgs,          \* msgs[t][o]: the message_t o, its def and buf pointers
    defs,          \* defs[t][o]: the messagedef_t o
    bufs,          \* bufs[t][o]: the payload buffer o, its size and bytes
    request,       \* request[t]: the parameter request
    response,      \* response[t]: the local variable response
    response_ptr,  \* response_ptr[t]: the parameter response_ptr
    slot,          \* slot[t]: the caller's variable response_ptr points to
    n,             \* n[t]: the local variable n
    ret,           \* ret[t]: <<v>> once the call has returned v, <<>> before
    gotoLine,      \* gotoLine[t]: the line of the goto cleanup taken, or 0
    entry,         \* entry[t]: the request as it was when the call began
    heapLog,       \* heapLog[t]: the malloc and free calls of the call
    wire,          \* wire[t]: the transport calls of caller t's current call
    stream         \* stream[t]: the inbound stream of caller t's connection
                   \* over the earlier calls on it, while they all succeeded

vars == <<pc, ncalls, heap, msgs, defs, bufs, request, response,
          response_ptr, slot, n, ret, gotoLine, entry, heapLog, wire, stream>>

\* the inbound stream of a connection no call has read from yet: no byte
\* consumed, no frame received; and the mark of a connection on which a call
\* has failed
Fresh == [consumed |-> 0, framed |-> U32(0)]
Broken == [consumed |-> -1, framed |-> <<-1, -1>>]

Init ==
    /\ pc = [t \in Callers |-> "idle"]
    /\ ncalls = 0
    /\ heap = [t \in Callers |-> [o \in Obj |-> "unallocated"]]
    /\ msgs = [t \in Callers |-> [o \in MsgObj |-> NoMsg]]
    /\ defs = [t \in Callers |-> [o \in DefObj |-> Indeterminate]]
    /\ bufs = [t \in Callers |-> [o \in BufObj |-> NoBuf]]
    /\ request = [t \in Callers |-> NULL]
    /\ response = [t \in Callers |-> NULL]
    /\ response_ptr = [t \in Callers |-> NULL]
    /\ slot = [t \in Callers |-> NULL]
    /\ n = [t \in Callers |-> 0]
    /\ ret = [t \in Callers |-> <<>>]
    /\ gotoLine = [t \in Callers |-> 0]
    /\ entry = [t \in Callers |-> [def |-> Indeterminate, buf |-> NoBuf]]
    /\ heapLog = [t \in Callers |-> <<>>]
    /\ wire = [t \in Callers |-> <<>>]
    /\ stream = [t \in Callers |-> Fresh]

(* ------------------------------ helpers ------------------------------- *)

\* request->def and request->buf, response->def and response->buf
ReqDef(t) == defs[t][msgs[t][request[t]].def]
RespDef(t) == defs[t][msgs[t][response[t]].def]

\* one record of wire[t]: a bufwrite or bufread call, the count asked for,
\* the value returned, and what was moved (the header struct or payload bytes)
WireCall(op, part, count, r, d, data) ==
    [op |-> op, part |-> part, count |-> count, n |-> r,
     def |-> d, data |-> data]

\* FREE(x) of buffer.h: free(x) and x = NULL, when x is not NULL. The heap
\* after FREE(p), and the record FREE(p) leaves in the log.
Free(h, p) == IF p # NULL THEN [h EXCEPT ![p] = "freed"] ELSE h
FreeLog(p) == IF p # NULL THEN <<<<"free", p>>>> ELSE <<>>

\* a byte count too large for 32 bits as <<high part, low 16 bits>>, and the
\* sum of two such counts (no wrap-around: the high part is not cut)
PlusBytes(a, b) ==
    LET lo == a[2] + b[2]
    IN  <<a[1] + b[1] + lo \div Half, lo % Half>>

\* the bytes the bufread calls of a wire log took from the inbound stream
RECURSIVE Consumed(_)
Consumed(w) ==
    IF w = <<>> THEN 0
    ELSE (IF Head(w).op = "bufread" THEN Moved(Head(w).n) ELSE 0) + Consumed(Tail(w))

\* the bytes of the response frame a call that returned 0 was sent:
\* sizeof(messagedef_t) plus the bufsize of the response header
FrameBytes(t) == PlusBytes(U32(SizeofDef), defs[t]["response_def"].bufsize)

\* the inbound stream of caller t's connection once the call that has just
\* returned is counted in
StreamAfter(t) ==
    IF stream[t] = Broken \/ ret[t] # <<0>>
    THEN Broken
    ELSE [consumed |-> stream[t].consumed + Consumed(wire[t]),
          framed |-> PlusBytes(stream[t].framed, FrameBytes(t))]

\* faulty variant of Frame: n is a static variable, one for all calls
Frame_Static(t) == 1

\* line 16: n is an automatic variable, so every call has its own
Frame(t) == t

\* faulty variant of Published: the output slot is never given the response
Published_Null(t) == NULL

\* line 24: what is stored in *response_ptr, the response just allocated
Published(t) == "response"

(* ------------------------------ actions ------------------------------- *)

\* lines 15-24. The caller passes its request and its output slot; the
\* response struct and its header are allocated, and the slot is set.
Call(t) ==
    /\ pc[t] \in {"idle", "done"}
    /\ ncalls < MaxCalls
    /\ \E d \in RequestDefs :
        LET hasBuf == BufsizePositive(d.bufsize)
            payload == [size |-> d.bufsize, data |-> ReqData(d.bufsize)]
        IN
        /\ heap' = [heap EXCEPT ![t] =
                [o \in Obj |->
                    CASE o \in {"request", "request_def"} -> "live"
                      [] o = "request_buf" -> IF hasBuf THEN "live" ELSE "unallocated"
                      [] o \in {"response", "response_def"} -> "live"
                      [] OTHER -> "unallocated"]]
        /\ msgs' = [msgs EXCEPT ![t] =
                [request |-> [def |-> "request_def",
                              buf |-> IF hasBuf THEN "request_buf" ELSE NULL],
                 response |-> [def |-> "response_def", buf |-> NULL]]]
        /\ defs' = [defs EXCEPT ![t] =
                [request_def |-> d, response_def |-> Indeterminate]]
        /\ bufs' = [bufs EXCEPT ![t] =
                [request_buf |-> IF hasBuf THEN payload ELSE NoBuf,
                 response_buf |-> NoBuf]]
        /\ entry' = [entry EXCEPT ![t] =
                [def |-> d, buf |-> IF hasBuf THEN payload ELSE NoBuf]]
    /\ ncalls' = ncalls + 1
    /\ request' = [request EXCEPT ![t] = "request"]
    /\ response' = [response EXCEPT ![t] = "response"]
    /\ response_ptr' = [response_ptr EXCEPT ![t] = "slot"]
    /\ slot' = [slot EXCEPT ![t] = Published(t)]
    /\ n' = [n EXCEPT ![Frame(t)] = 0]
    /\ ret' = [ret EXCEPT ![t] = <<>>]
    /\ gotoLine' = [gotoLine EXCEPT ![t] = 0]
    /\ heapLog' = [heapLog EXCEPT ![t] =
            << <<"malloc", "response">>, <<"malloc", "response_def">>,
               <<"use", "response">>, <<"use", "response">> >>]
    /\ wire' = [wire EXCEPT ![t] = <<>>]
    /\ stream' = [stream EXCEPT ![t] = IF pc[t] = "idle" THEN @ ELSE StreamAfter(t)]
    /\ pc' = [pc EXCEPT ![t] = "write_def"]

\* lines 27-30: bufwrite(server, request->def, sizeof(messagedef_t))
WriteDef(t) ==
    /\ pc[t] = "write_def"
    /\ \E r \in HeaderReturns :
        /\ n' = [n EXCEPT ![Frame(t)] = r]
        /\ wire' = [wire EXCEPT ![t] = Append(@,
                WireCall("bufwrite", "def", U32(SizeofDef), r, ReqDef(t), <<>>))]
        /\ IF NeqSizeofDef(r)
           THEN /\ gotoLine' = [gotoLine EXCEPT ![t] = 29]
                /\ pc' = [pc EXCEPT ![t] = "cleanup"]
           ELSE /\ pc' = [pc EXCEPT ![t] = "write_buf"]
                /\ UNCHANGED gotoLine
    /\ UNCHANGED <<stream, ncalls, heap, msgs, defs, bufs, request, response,
                   response_ptr, slot, ret, entry, heapLog>>

\* lines 33-36: bufwrite(server, request->buf, request->def->bufsize)
WriteBuf(t) ==
    /\ pc[t] = "write_buf"
    /\ LET count == ReqDef(t).bufsize
           src == msgs[t][request[t]].buf
           bytes == IF src = NULL THEN <<>> ELSE bufs[t][src].data
       IN \E r \in PayloadReturns(count) :
        /\ n' = [n EXCEPT ![Frame(t)] = r]
        /\ wire' = [wire EXCEPT ![t] = Append(@,
                WireCall("bufwrite", "buf", count, r, Indeterminate,
                         SubSeq(bytes, 1, Moved(r))))]
        /\ IF NeqBufsize(r, count)
           THEN /\ gotoLine' = [gotoLine EXCEPT ![t] = 35]
                /\ pc' = [pc EXCEPT ![t] = "cleanup"]
           ELSE /\ pc' = [pc EXCEPT ![t] = "read_def"]
                /\ UNCHANGED gotoLine
    /\ UNCHANGED <<stream, ncalls, heap, msgs, defs, bufs, request, response,
                   response_ptr, slot, ret, entry, heapLog>>

\* faulty variant of ReadDefTarget: the header is read into request->def
ReadDefTarget_Request(t) == msgs[t][request[t]].def

\* line 39: the struct the response header is read into, response->def
ReadDefTarget(t) == msgs[t][response[t]].def

\* lines 39-42: bufread(server, response->def, sizeof(messagedef_t)). A full
\* read stores the header the server sent; a short one leaves the struct
\* partly filled.
ReadDef(t) ==
    /\ pc[t] = "read_def"
    /\ \E r \in HeaderReturns :
       \E d \in (IF r = SizeofDef THEN ResponseDefs ELSE {Indeterminate}) :
        /\ n' = [n EXCEPT ![Frame(t)] = r]
        /\ wire' = [wire EXCEPT ![t] = Append(@,
                WireCall("bufread", "def", U32(SizeofDef), r, d, <<>>))]
        /\ defs' = [defs EXCEPT ![t][ReadDefTarget(t)] = IF Moved(r) > 0 THEN d ELSE @]
        /\ heapLog' = [heapLog EXCEPT ![t] =
                @ \o << <<"use", response[t]>>, <<"use", ReadDefTarget(t)>> >>]
        /\ IF NeqSizeofDef(r)
           THEN /\ gotoLine' = [gotoLine EXCEPT ![t] = 41]
                /\ pc' = [pc EXCEPT ![t] = "cleanup"]
           ELSE /\ pc' = [pc EXCEPT ![t] = "check_version"]
                /\ UNCHANGED gotoLine
    /\ UNCHANGED <<stream, ncalls, heap, msgs, bufs, request, response,
                   response_ptr, slot, ret, entry>>

\* faulty variant of VersionMismatch: the version is not looked at
VersionMismatch_Never(d) == FALSE

\* line 44: response->def->version != VERSION
VersionMismatch(d) == d.version # VERSION

\* the heap accesses of an expression response->def->field: the message
\* struct is read for its def pointer, then the header it points to
UseResponseDef(t) == << <<"use", response[t]>>, <<"use", msgs[t][response[t]].def>> >>

\* lines 44-47
CheckVersion(t) ==
    /\ pc[t] = "check_version"
    /\ IF VersionMismatch(RespDef(t))
       THEN /\ gotoLine' = [gotoLine EXCEPT ![t] = 46]
            /\ pc' = [pc EXCEPT ![t] = "cleanup"]
       ELSE /\ pc' = [pc EXCEPT ![t] = "read_buf"]
            /\ UNCHANGED gotoLine
    /\ heapLog' = [heapLog EXCEPT ![t] = @ \o UseResponseDef(t)]
    /\ UNCHANGED <<stream, ncalls, heap, msgs, defs, bufs, request, response,
                   response_ptr, slot, n, ret, entry, wire>>

\* faulty variant of HasPayload: the payload is read whatever bufsize is
HasPayload_Always(t) == TRUE

\* line 50: whether there is a payload to read
HasPayload(t) == BufsizePositive(RespDef(t).bufsize)

\* lines 50-56 and 60, bufsize > 0: the payload buffer is allocated and
\* bufread(server, response->buf, response->def->bufsize) fills it
ReadBuf(t) ==
    /\ pc[t] = "read_buf"
    /\ HasPayload(t)
    /\ LET count == RespDef(t).bufsize
       IN \E r \in PayloadReturns(count) : \E data \in [1..Moved(r) -> Byte] :
        /\ n' = [n EXCEPT ![Frame(t)] = r]
        /\ heap' = [heap EXCEPT ![t]["response_buf"] = "live"]
        /\ heapLog' = [heapLog EXCEPT ![t] =
                @ \o UseResponseDef(t)
                  \o << <<"malloc", "response_buf">>, <<"use", response[t]>>,
                        <<"use", "response_buf">> >>]
        /\ msgs' = [msgs EXCEPT ![t][response[t]].buf = "response_buf"]
        /\ bufs' = [bufs EXCEPT ![t]["response_buf"] = [size |-> count, data |-> data]]
        /\ wire' = [wire EXCEPT ![t] = Append(@,
                WireCall("bufread", "buf", count, r, Indeterminate, data))]
        /\ IF NeqBufsize(r, count)
           THEN /\ gotoLine' = [gotoLine EXCEPT ![t] = 54]
                /\ pc' = [pc EXCEPT ![t] = "cleanup"]
                /\ UNCHANGED ret
           ELSE /\ pc' = [pc EXCEPT ![t] = "done"]
                /\ ret' = [ret EXCEPT ![t] = <<0>>]
                /\ UNCHANGED gotoLine
    /\ UNCHANGED <<stream, ncalls, defs, request, response, response_ptr, slot,
                   entry>>

\* lines 50 and 60, bufsize == 0: nothing to read, return 0
SkipBuf(t) ==
    /\ pc[t] = "read_buf"
    /\ ~HasPayload(t)
    /\ pc' = [pc EXCEPT ![t] = "done"]
    /\ ret' = [ret EXCEPT ![t] = <<0>>]
    /\ heapLog' = [heapLog EXCEPT ![t] = @ \o UseResponseDef(t)]
    /\ UNCHANGED <<stream, ncalls, heap, msgs, defs, bufs, request, response,
                   response_ptr, slot, n, gotoLine, entry, wire>>

\* FREE(x) of cleanup applied to the state st of caller t's heap (st.heap),
\* message structs (st.msgs), local variable response (st.resp) and heap log
\* (st.log). x is "self" for FREE(response), or the field "def" or "buf" for
\* FREE(response->def), FREE(response->buf): the struct is read for the
\* field, and when the field is not NULL its object is released and the
\* field is cleared.
FreeStep(st, x) ==
    IF x = "self"
    THEN [st EXCEPT !.heap = Free(@, st.resp),
                    !.log = @ \o FreeLog(st.resp),
                    !.resp = NULL]
    ELSE LET base == st.resp
             p == IF base = NULL THEN NULL ELSE st.msgs[base][x]
         IN  IF p = NULL
             THEN [st EXCEPT !.log = @ \o << <<"use", base>> >>]
             ELSE [st EXCEPT !.heap = Free(@, p),
                             !.log = @ \o << <<"use", base>> >> \o FreeLog(p)
                                       \o << <<"use", base>> >>,
                             !.msgs[base][x] = NULL]

RECURSIVE RunFrees(_, _)
\* the FREE calls xs made one after the other
RunFrees(st, xs) ==
    IF xs = <<>> THEN st ELSE RunFrees(FreeStep(st, Head(xs)), Tail(xs))

\* faulty variant of CleanupFrees: FREE(response->buf) is left out
CleanupFrees_LeakBuf(t) == <<"def", "self">>

\* faulty variant of CleanupFrees: the struct is released before its fields
CleanupFrees_StructFirst(t) == <<"self", "def", "buf">>

\* lines 64-66: what cleanup releases, in this order: response->def,
\* response->buf and response itself
CleanupFrees(t) == <<"def", "buf", "self">>

\* faulty variant of CleanupReturn: cleanup falls into the success return
CleanupReturn_Success(t) == 0

\* line 68: the value cleanup returns
CleanupReturn(t) == -1

\* lines 62-68: each FREE releases its object when the pointer is not NULL
\* and clears the pointer; then the parameter response_ptr (not the caller's
\* slot) is set to NULL and -1 is returned
Cleanup(t) ==
    /\ pc[t] = "cleanup"
    /\ LET st == RunFrees([heap |-> heap[t], msgs |-> msgs[t],
                            resp |-> response[t], log |-> heapLog[t]],
                           CleanupFrees(t))
       IN /\ heap' = [heap EXCEPT ![t] = st.heap]
          /\ msgs' = [msgs EXCEPT ![t] = st.msgs]
          /\ response' = [response EXCEPT ![t] = st.resp]
          /\ heapLog' = [heapLog EXCEPT ![t] = st.log]
    /\ response_ptr' = [response_ptr EXCEPT ![t] = NULL]
    /\ ret' = [ret EXCEPT ![t] = <<CleanupReturn(t)>>]
    /\ pc' = [pc EXCEPT ![t] = "done"]
    /\ UNCHANGED <<stream, ncalls, defs, bufs, request, slot, n, gotoLine,
                   entry, wire>>

Next ==
    \E t \in Callers :
        \/ Call(t)
        \/ WriteDef(t)
        \/ WriteBuf(t)
        \/ ReadDef(t)
        \/ CheckVersion(t)
        \/ ReadBuf(t)
        \/ SkipBuf(t)
        \/ Cleanup(t)

Spec == Init /\ [][Next]_vars

(* --------------------------- claim vocabulary -------------------------- *)

\* whether exactly the required number of bytes was transferred: the count
\* the transport returned and the required count are the same integer
Transferred(r, count) == r >= 0 /\ r < Half /\ count = <<0, r>>

Done(t) == pc[t] = "done"
Failed(t) == Done(t) /\ ret[t] = <<-1>>
Succeeded(t) == Done(t) /\ ret[t] = <<0>>

\* the transport calls of caller t's current call, in the order made
MyWire(t) == wire[t]

\* the transport call e moved exactly the bytes it was asked to move
Complete(e) == Transferred(e.n, e.count)

\* the current call has read a whole response header
HeaderRead(t) ==
    /\ Len(MyWire(t)) >= 3
    /\ MyWire(t)[3].op = "bufread" /\ MyWire(t)[3].part = "def"
    /\ MyWire(t)[3].n = SizeofDef

\* the header the current call has read
HeaderSeen(t) == MyWire(t)[3].def

PayloadReads(t) ==
    {i \in 1..Len(MyWire(t)) : MyWire(t)[i].op = "bufread" /\ MyWire(t)[i].part = "buf"}

Mallocs(t, o) == {i \in 1..Len(heapLog[t]) : heapLog[t][i] = <<"malloc", o>>}
Frees(t, o) == {i \in 1..Len(heapLog[t]) : heapLog[t][i] = <<"free", o>>}

ResponseObj == {"response", "response_def", "response_buf"}

\* the four transport calls of one exchange, in the order of the algorithm
StepOrder ==
    << <<"bufwrite", "def">>, <<"bufwrite", "buf">>,
       <<"bufread", "def">>, <<"bufread", "buf">> >>

(* ------------------------------- claims -------------------------------- *)

\* C1: after tcprequest has returned -1, the caller's output slot does not
\* reference a released or otherwise unusable response object.
C1_NoUnusableResponseExposed ==
    \A t \in Callers :
        Failed(t) => (slot[t] = NULL \/ heap[t][slot[t]] = "live")

\* C2: when tcprequest returns -1, every object the call allocated for the
\* response (the message struct, the header, the payload buffer if it was
\* allocated) has been released: no response object is live, and the call's
\* mallocs and frees pair up one to one.
C2_FailureReleasesAll ==
    \A t \in Callers :
        Failed(t) =>
            \A o \in ResponseObj :
                /\ heap[t][o] # "live"
                /\ Cardinality(Mallocs(t, o)) = Cardinality(Frees(t, o))

\* C2 witness: a call failed at the payload read, after the payload buffer
\* had been allocated, and the buffer has been released.
C2_Witness ==
    \E t \in Callers :
        /\ Failed(t) /\ gotoLine[t] = 54
        /\ Mallocs(t, "response_buf") # {}
        /\ heap[t]["response_buf"] = "freed"

\* C3: the transport calls of a call come in the fixed order header write,
\* payload write, header read, (version check,) payload read, and a step is
\* started only after every earlier step has completed successfully: each
\* earlier transport call moved exactly the bytes required, and the payload
\* read is only made for a header of the supported version.
C3_FixedOrderEachStepComplete ==
    \A t \in Callers :
        LET w == MyWire(t)
        IN  /\ Len(w) <= Len(StepOrder)
            /\ \A i \in 1..Len(w) :
                /\ <<w[i].op, w[i].part>> = StepOrder[i]
                /\ i < Len(w) => Complete(w[i])
            /\ Len(w) = 4 => w[3].def.version = VERSION

\* C4: when the header read succeeds and the version differs from VERSION,
\* no payload buffer is allocated, no payload read is made, whatever the
\* advertised bufsize, and the call fails.
C4_VersionGateBeforePayload ==
    \A t \in Callers :
        (HeaderRead(t) /\ HeaderSeen(t).version # VERSION) =>
            /\ PayloadReads(t) = {}
            /\ Mallocs(t, "response_buf") = {}
            /\ heap[t]["response_buf"] = "unallocated"
            /\ pc[t] \in {"check_version", "cleanup", "done"}
            /\ Done(t) => (ret[t] = <<-1>> /\ gotoLine[t] = 46)

\* C4 witness: a call that read a header of another version advertising a
\* payload (bufsize > 0) has failed.
C4_Witness ==
    \E t \in Callers :
        /\ Failed(t) /\ HeaderRead(t)
        /\ HeaderSeen(t).version # VERSION
        /\ HeaderSeen(t).bufsize \in {U32(MaxBuf), U32Max}

\* C5: once a step has failed no later transport call is made: a short
\* header write, payload write or header read is the last transport call of
\* its call.
C5_NoTransportCallAfterShortTransfer ==
    \A t \in Callers :
        LET w == MyWire(t)
        IN  \A i \in 1..Len(w) : ~Complete(w[i]) => i = Len(w)

\* C6: from the entry of a call on, on success and on every failure path,
\* the request header and payload are what they were at entry and the
\* request objects are still allocated.
C6_RequestUntouched ==
    \A t \in Callers :
        pc[t] # "idle" =>
            /\ defs[t]["request_def"] = entry[t].def
            /\ bufs[t]["request_buf"] = entry[t].buf
            /\ msgs[t]["request"].def = "request_def"
            /\ msgs[t]["request"].buf =
                    (IF BufsizePositive(entry[t].def.bufsize) THEN "request_buf" ELSE NULL)
            /\ heap[t]["request"] = "live"
            /\ heap[t]["request_def"] = "live"
            /\ heap[t]["request_buf"] =
                    (IF BufsizePositive(entry[t].def.bufsize) THEN "live" ELSE "unallocated")

\* C6 witness: one call with a request payload has succeeded and another
\* has failed after reading a response header.
C6_Witness ==
    \E t, u \in Callers :
        /\ Succeeded(t) /\ entry[t].buf.data # <<>>
        /\ Failed(u) /\ entry[u].buf.data # <<>> /\ gotoLine[u] \in {46, 54}

\* C7: whenever tcprequest returns 0 the response is a framed message: its
\* version is VERSION and its payload holds exactly bufsize bytes, which are
\* the bytes the payload read took from the connection.
C7_SuccessIsFramedMessage ==
    \A t \in Callers :
        Succeeded(t) =>
            LET d == defs[t]["response_def"]
                b == msgs[t]["response"].buf
                data == IF b = NULL THEN <<>> ELSE bufs[t][b].data
                w == MyWire(t)
            IN  /\ d.version = VERSION
                /\ Transferred(Len(data), d.bufsize)
                /\ b # NULL => (Len(w) = 4 /\ data = w[4].data)

\* C8: when the header read has the supported version and bufsize == 0,
\* no payload read is made, no payload buffer is allocated, response->buf
\* stays NULL, and the call returns 0.
C8_ZeroBufsizeNoPayloadRead ==
    \A t \in Callers :
        (HeaderRead(t) /\ HeaderSeen(t).version = VERSION
                       /\ HeaderSeen(t).bufsize = U32(0)) =>
            /\ PayloadReads(t) = {}
            /\ Mallocs(t, "response_buf") = {}
            /\ heap[t]["response_buf"] = "unallocated"
            /\ msgs[t]["response"].buf = NULL
            /\ pc[t] \in {"check_version", "read_buf", "done"}
            /\ Done(t) => ret[t] = <<0>>

\* C8 witness: a call whose response header had bufsize == 0 has returned 0.
C8_Witness ==
    \E t \in Callers :
        /\ Succeeded(t) /\ HeaderRead(t)
        /\ HeaderSeen(t).bufsize = U32(0)
        /\ slot[t] = "response" /\ heap[t]["response"] = "live"

C10_NoRetryShortTransferFails ==
    \A t \in Callers :
        LET w == MyWire(t)
        IN  /\ \A i, j \in 1..Len(w) :
                    (w[i].op = w[j].op /\ w[i].part = w[j].part) => i = j
            /\ (Done(t) /\ \E i \in 1..Len(w) : ~Complete(w[i])) => ret[t] = <<-1>>

\* C11: in every call that passes step 2 (the payload write is not rejected
\* at line 33), what the call writes to the connection is exactly the
\* sizeof(messagedef_t) bytes of the request header followed by exactly
\* request bufsize payload bytes, the request's own, and nothing else; with
\* bufsize == 0 no payload byte is written.
C11_WritesExactlyHeaderThenPayload ==
    \A t \in Callers :
        LET w == MyWire(t)
            IsWrite(e) == e.op = "bufwrite"
            wr == SelectSeq(w, IsWrite)
        IN  (Len(w) >= 2 /\ gotoLine[t] # 35) =>
                /\ Len(wr) = 2
                /\ wr[1] = w[1] /\ wr[2] = w[2]
                /\ wr[1].part = "def" /\ wr[1].n = SizeofDef
                /\ wr[1].def = entry[t].def
                /\ wr[2].part = "buf"
                /\ wr[2].data = entry[t].buf.data
                /\ Transferred(Len(wr[2].data), entry[t].def.bufsize)

\* the part of the state that belongs to caller t's call: its position, its
\* parameters and locals, the objects it was given or allocated, its output
\* slot, its result and what happened on its connection
Own(t) ==
    <<pc[t], heap[t], msgs[t], defs[t], bufs[t], request[t], response[t],
      response_ptr[t], slot[t], n[t], ret[t], gotoLine[t], entry[t],
      heapLog[t], wire[t]>>

\* C12: tcprequest keeps no state outside the call: a step of one call
\* changes nothing that belongs to the other caller's call, and the outcome
\* of a finished call (return value, response, heap, slot) is determined by
\* its own request and by what its own connection returned, however the two
\* calls were interleaved.
C12_NoSharedState ==
    /\ [][\A u \in Callers : pc'[u] = pc[u] => Own(u)' = Own(u)]_vars
    /\ [](\A t, u \in Callers :
            (Done(t) /\ Done(u) /\ entry[t] = entry[u] /\ wire[t] = wire[u])
                => Own(t) = Own(u))

\* C12 witness: the two callers are inside tcprequest at the same time, one
\* about to read its payload and the other about to check its header.
C12_Witness ==
    \E t, u \in Callers :
        /\ t # u
        /\ pc[t] = "read_buf" /\ HasPayload(t)
        /\ pc[u] = "check_version"

\* the five conditions of a successful exchange, read off the transport
\* calls of the call: the header write, the payload write and the header
\* read each moved exactly what was required, the version is VERSION, and
\* the payload is empty or the payload read moved exactly bufsize bytes
ExchangeComplete(t) ==
    LET w == MyWire(t)
    IN  /\ Len(w) >= 3
        /\ Complete(w[1]) /\ Complete(w[2]) /\ Complete(w[3])
        /\ w[3].def.version = VERSION
        /\ \/ w[3].def.bufsize = U32(0)
           \/ Len(w) = 4 /\ Complete(w[4])

\* C13: tcprequest returns 0 if and only if all five conditions hold, and
\* -1 in every other case.
C13_ReturnsZeroIffComplete ==
    \A t \in Callers :
        Done(t) =>
            /\ ret[t] \in {<<0>>, <<-1>>}
            /\ ret[t] = <<0>> <=> ExchangeComplete(t)

\* C14: whenever tcprequest returns 0 the caller's slot references the
\* response this call allocated, whose header is still allocated and whose
\* payload buffer is allocated exactly when the response bufsize > 0; the
\* call has released none of them.
C14_SuccessHandsOverResponse ==
    \A t \in Callers :
        Succeeded(t) =>
            LET r == msgs[t]["response"]
                withPayload == BufsizePositive(defs[t]["response_def"].bufsize)
            IN  /\ slot[t] = "response"
                /\ Mallocs(t, "response") # {} /\ heap[t]["response"] = "live"
                /\ r.def = "response_def"
                /\ Mallocs(t, "response_def") # {} /\ heap[t]["response_def"] = "live"
                /\ withPayload => (r.buf = "response_buf" /\ heap[t]["response_buf"] = "live")
                /\ ~withPayload => (r.buf = NULL /\ heap[t]["response_buf"] = "unallocated")
                /\ \A o \in ResponseObj : Frees(t, o) = {}

\* C14 witness: one call has returned 0 with a payload and another has
\* returned 0 without one.
C14_Witness ==
    \E t, u \in Callers :
        /\ Succeeded(t) /\ bufs[t]["response_buf"].data # <<>>
        /\ Succeeded(u) /\ defs[u]["response_def"].bufsize = U32(0)

\* the line of the goto cleanup that rejects the i-th transport call
RejectLine == <<29, 35, 41, 54>>

\* the i-th transport call of caller t's call was accepted as complete: the
\* test that follows it did not jump to cleanup
Accepted(t, i) == gotoLine[t] # RejectLine[i]

\* C15: a write or read step is accepted as complete only when the count
\* the transport returned equals the required count as integers; every other
\* return value, a negative one included, makes the step fail, for every
\* bufsize the header field can carry.
C15_AcceptedOnlyWhenCountsEqual ==
    \A t \in Callers :
        \A i \in 1..Len(MyWire(t)) :
            Accepted(t, i) <=> Complete(MyWire(t)[i])

\* object o is allocated and not yet released just before the j-th record of
\* caller t's heap log
LiveAt(t, o, j) ==
    /\ \E i \in Mallocs(t, o) : i < j
    /\ \A k \in Frees(t, o) : k >= j

\* C16: on every path each response object is released at most once and is
\* never read, written or released unless it is allocated and not yet
\* released (so the payload buffer is released only when it was allocated);
\* the header and the payload buffer are released before the message struct
\* that holds their pointers.
C16_ReleaseOnceNoUseAfter ==
    \A t \in Callers :
        LET log == heapLog[t]
        IN  /\ \A o \in ResponseObj : Cardinality(Frees(t, o)) <= 1
            /\ \A j \in 1..Len(log) :
                    log[j][1] \in {"use", "free"} =>
                        (log[j][2] \in ResponseObj /\ LiveAt(t, log[j][2], j))
            /\ \A k \in Frees(t, "response") :
                    \A o \in {"response_def", "response_buf"} :
                        Mallocs(t, o) # {} => \E f \in Frees(t, o) : f < k

\* C16 witness: one call has gone through cleanup with a payload buffer
\* allocated and has released all three objects, the struct last; another
\* has gone through cleanup before a payload buffer existed and has released
\* no payload buffer.
C16_Witness ==
    \E t, u \in Callers :
        /\ Failed(t) /\ gotoLine[t] = 54
        /\ \A o \in ResponseObj : Cardinality(Frees(t, o)) = 1
        /\ heapLog[t][Len(heapLog[t])] = <<"free", "response">>
        /\ Failed(u) /\ gotoLine[u] \in {29, 35, 41, 46}
        /\ Frees(u, "response_buf") = {} /\ Frees(u, "response") # {}

\* C17: when every call made so far on a connection has returned 0, the
\* bytes its bufread calls have taken from the inbound stream are the sum,
\* over those calls, of sizeof(messagedef_t) plus the response bufsize, so
\* the next call starts reading at the first byte of a response header.
C17_StreamStaysFrameAligned ==
    \A t \in Callers :
        (Succeeded(t) /\ stream[t] # Broken) =>
            LET after == StreamAfter(t)
            IN  <<after.consumed \div Half, after.consumed % Half>> = after.framed

====
